---- MODULE Spec2Model ----
(***************************************************************************)
(* BDO trading post arbitrage: the ingestion pipeline, the label resolver  *)
(* and the landing page of src/app.py, and the label resolver and orders   *)
(* cache of src/bdo_search/app.py.                                         *)
(*                                                                         *)
(* Text is modelled as a sequence of one-character strings, so that the    *)
(* strip / split / int steps of the parsers are computed as Python         *)
(* computes them.  A Python call that may raise is modelled by a record    *)
(* [raised, val]: Ok(v) is a normal return of v, Raise is an exception.    *)
(***************************************************************************)
EXTENDS Integers, Sequences, FiniteSets, TLC

VARIABLES
    \* a parser called on its own: the record kind, the batch of records the
    \* text is made of, whether the text carries the outer separators, the
    \* position of the call and its outcome
    pkind, pbatch, pwrap, pphase, pout,
    \* one caller of the fetch operations: the operation, its position, the
    \* stage of get_market_and_bidding, its enh_min / enh_max arguments, the
    \* upstream's last response, the value handed back to the caller, the
    \* number of HTTP calls the current api_request has made, and the
    \* market_data list of get_market_and_bidding with its loop index
    fop, fpc, fstage, fargs, fresp, fret, fattempts, fdata, fidx,
    \* its item_id argument, the payloads posted so far, and within
    \* get_market_and_bidding the list fetch_market_data returned and the
    \* upstream's responses to the bidding fetches made so far
    fitem, freqs, fmarket, fbresps,
    \* the web application: the clock, the process-level item directory
    \* cache with the number of times it was loaded, and per request
    \* handler its position, the time its fetch_hotlist began, the handlers
    \* that had finished by then, the upstream hotlist calls it issued, the
    \* upstream's response and the list fetch_hotlist returned
    now, item_db_cache, db_loads, hpc, hstart, hafter, hup, hresp, hret,
    \* the enhancement label resolver called on its own: which of the two
    \* applications' enh_name is called, its min_e / max_e arguments, the
    \* position of the call and its outcome
    ewhich, emin, emax, ephase, eout,
    \* the search application's orders cache: its clock, the garmoth_cache
    \* dictionary, and per caller of get_orders_from_garmoth_api its
    \* position, its key, its local now, the network calls it issued, the
    \* upstream's answer and the value it returned
    otime, garmoth_cache, opc, okey, onow, onet, oresp, oret,
    \* the landing page's pagination: the hotlist, the requested page, the
    \* position of the computation and its outcome
    all_hotlist, req_page, gphase, gout

varsParse == <<pkind, pbatch, pwrap, pphase, pout>>
varsFetch == <<fop, fpc, fstage, fargs, fresp, fret, fattempts, fdata, fidx,
               fitem, freqs, fmarket, fbresps>>
varsHot == <<now, item_db_cache, db_loads, hpc, hstart, hafter, hup, hresp, hret>>
varsEnh == <<ewhich, emin, emax, ephase, eout>>
varsOrders == <<otime, garmoth_cache, opc, okey, onow, onet, oresp, oret>>
varsPage == <<all_hotlist, req_page, gphase, gout>>
varsMore == <<varsEnh, varsOrders, varsPage>>
vars == <<varsParse, varsFetch, varsHot, varsMore>>

(***************************************************************************)
(* Bounds of the model.                                                    *)
(***************************************************************************)
\* longest batch of records handed to a parser
MaxBatch == 3
\* largest seed of the generated integer records
MaxSeed == 1
\* request handlers running at the same time
NumHandlers == 2
\* the clock advances MaxTicks times, by TickLen each time
MaxTicks == 2
TickLen == 20
\* enhancement levels handed to the label resolver reach EnhSpan beyond the
\* tables of the two resolvers, on either side
EnhSpan == 2
\* longest hotlist and largest page number asked of the landing page
MaxHotlist == 51
MaxPage == 4
\* the clock of the orders cache advances MaxTicks times, by OrdersTickLen
OrdersTickLen == 5

Handlers == 1..NumHandlers

(***************************************************************************)
(* Outcomes of a call.                                                     *)
(***************************************************************************)
Ok(v) == [raised |-> FALSE, val |-> v]
Raise == [raised |-> TRUE, val |-> <<>>]

(***************************************************************************)
(* Characters and Python's str operations.                                 *)
(***************************************************************************)
DigitChars == <<"0", "1", "2", "3", "4", "5", "6", "7", "8", "9">>

IsDigit(c) == \E d \in 1..10 : DigitChars[d] = c
DigitVal(c) == (CHOOSE d \in 1..10 : DigitChars[d] = c) - 1

\* str.strip(c): every leading and every trailing c is removed
strip(s, c) ==
    LET keep == { i \in 1..Len(s) : s[i] # c }
    IN  IF keep = {} THEN <<>>
        ELSE SubSeq(s, CHOOSE i \in keep : \A j \in keep : i <= j,
                       CHOOSE i \in keep : \A j \in keep : j <= i)

\* str.split(sep): the pieces between the separators, always at least one
\* piece; "" splits to [""]
split(s, sep) ==
    LET seps == { i \in 1..Len(s) : s[i] = sep }
        n == Cardinality(seps)
        cut(k) == IF k = 0 THEN 0
                  ELSE IF k = n + 1 THEN Len(s) + 1
                  ELSE CHOOSE p \in seps : Cardinality({ q \in seps : q < p }) = k - 1
    IN  [k \in 1..(n + 1) |-> SubSeq(s, cut(k - 1) + 1, cut(k) - 1)]

\* int(s) succeeds on a non-empty run of decimal digits (the alphabet of the
\* model holds digits, the two separators and the non-digit "x"; a "-" never
\* reaches int(), the fields being split on it)
IsIntLiteral(s) == s # <<>> /\ \A i \in 1..Len(s) : IsDigit(s[i])

RECURSIVE DecimalValue(_, _)
DecimalValue(s, acc) ==
    IF s = <<>> THEN acc ELSE DecimalValue(Tail(s), 10 * acc + DigitVal(Head(s)))

int(s) == IF IsIntLiteral(s) THEN Ok(DecimalValue(s, 0)) ELSE Raise

\* str(n) of a non-negative integer
RECURSIVE str(_)
str(n) == IF n < 10 THEN <<DigitChars[n + 1]>>
          ELSE str(n \div 10) \o <<DigitChars[(n % 10) + 1]>>

\* sep.join(parts)
RECURSIVE join(_, _)
join(parts, sep) ==
    IF parts = <<>> THEN <<>>
    ELSE IF Len(parts) = 1 THEN parts[1]
    ELSE parts[1] \o <<sep>> \o join(Tail(parts), sep)

(***************************************************************************)
(* unix_to_local_time: strftime("%d.%m.%Y %H:%M") in Europe/Bucharest.     *)
(* The text is a function of the minute the timestamp falls in; it is      *)
(* represented by that minute, tagged with the format.  The "-" of the     *)
(* except branch needs a timestamp outside datetime's range, far above     *)
(* the integers of the model.                                              *)
(***************************************************************************)
unix_to_local_time(timestamp) == <<"%d.%m.%Y %H:%M", timestamp \div 60>>

(***************************************************************************)
(* CONFIG                                                                  *)
(***************************************************************************)
MARKET_FIELDS ==
    <<"item_id", "enhancement_min", "enhancement_max", "base_price",
      "current_stock", "total_trades", "price_hardcap_min",
      "price_hardcap_max", "last_sale_price", "last_sale_time">>

HOTLIST_INT_FIELDS ==
    <<"enh_min", "enh_max", "base_price", "stock", "total_trades", "price_dir",
      "price_change", "price_min", "price_max", "last_sale_price",
      "last_sale_time">>

(***************************************************************************)
(* The record parsers.                                                     *)
(***************************************************************************)
\* the arity test of a record: len(values) == n
ArityMatchesGE(values, n) == Len(values) >= n
ArityMatches(values, n) == Len(values) = n

\* int() of the fields lo..hi raises as soon as one of them is no integer
AllInt(values, lo, hi) == \A i \in lo..hi : IsIntLiteral(values[i])

\* {MARKET_FIELDS[i]: int(values[i]) for i in range(10)} and the derived time
market_item_reversed(values) ==
    LET item == [k \in {MARKET_FIELDS[i] : i \in 1..10} |->
                    int(values[11 - (CHOOSE i \in 1..10 : MARKET_FIELDS[i] = k)]).val]
    IN  item @@ ("last_sale_time_ro" :> unix_to_local_time(item["last_sale_time"]))
market_item(values) ==
    LET item == [k \in {MARKET_FIELDS[i] : i \in 1..10} |->
                    int(values[CHOOSE i \in 1..10 : MARKET_FIELDS[i] = k]).val]
    IN  item @@ ("last_sale_time_ro" :> unix_to_local_time(item["last_sale_time"]))

bidding_item(values) ==
    [price |-> int(values[1]).val,
     sell_orders |-> int(values[2]).val,
     buy_orders |-> int(values[3]).val]

\* item_id stays the text of the first field; the other eleven are int()
hotlist_item(fields) ==
    LET ints == [k \in {HOTLIST_INT_FIELDS[i] : i \in 1..11} |->
                    int(fields[1 + (CHOOSE i \in 1..11 : HOTLIST_INT_FIELDS[i] = k)]).val]
    IN  ints @@ ("item_id" :> fields[1])
             @@ ("last_sale_time_ro" :> unix_to_local_time(ints["last_sale_time"]))

\* for entry in text.strip("|").split("|"): ... of parse_market_data
RECURSIVE market_loop(_, _)
market_loop(entries, items) ==
    IF entries = <<>> THEN Ok(items)
    ELSE LET values == split(Head(entries), "-")
         IN  IF ArityMatches(values, 10)
             THEN IF AllInt(values, 1, 10)
                  THEN market_loop(Tail(entries), Append(items, market_item(values)))
                  ELSE Raise
             ELSE market_loop(Tail(entries), items)

parse_market_data(result_msg) ==
    IF result_msg = <<>> THEN Ok(<<>>)
    ELSE market_loop(split(strip(result_msg, "|"), "|"), <<>>)

RECURSIVE bidding_loop(_, _)
bidding_loop(entries, result) ==
    IF entries = <<>> THEN Ok(result)
    ELSE LET values == split(Head(entries), "-")
         IN  IF ArityMatches(values, 3)
             THEN IF AllInt(values, 1, 3)
                  THEN bidding_loop(Tail(entries), Append(result, bidding_item(values)))
                  ELSE Raise
             ELSE bidding_loop(Tail(entries), result)

parse_bidding_info(decoded_str) ==
    IF decoded_str = <<>> THEN Ok(<<>>)
    ELSE bidding_loop(split(strip(decoded_str, "|"), "|"), <<>>)

\* the loop of fetch_hotlist over the decoded text (no falsy test before it)
RECURSIVE hotlist_loop(_, _)
hotlist_loop(entries, items) ==
    IF entries = <<>> THEN Ok(items)
    ELSE LET fields == split(Head(entries), "-")
         IN  IF ArityMatches(fields, 12)
             THEN IF AllInt(fields, 2, 12)
                  THEN hotlist_loop(Tail(entries), Append(items, hotlist_item(fields)))
                  ELSE Raise
             ELSE hotlist_loop(Tail(entries), items)

parse_hotlist(decoded) == hotlist_loop(split(strip(decoded, "|"), "|"), <<>>)

Kinds == {"market", "bidding", "hotlist"}

Arity(kind) == IF kind = "market" THEN 10 ELSE IF kind = "bidding" THEN 3 ELSE 12

Parse(kind, text) ==
    IF kind = "market" THEN parse_market_data(text)
    ELSE IF kind = "bidding" THEN parse_bidding_info(text)
    ELSE parse_hotlist(text)

(***************************************************************************)
(* The upstream's delimited text.  A record is a sequence of fields; a     *)
(* field is a non-negative integer, written in decimal, or a token that    *)
(* is no integer.                                                          *)
(***************************************************************************)
IntField(n) == [isInt |-> TRUE, n |-> n, tok |-> <<>>]
JunkField(t) == [isInt |-> FALSE, n |-> 0, tok |-> t]

FieldText(f) == IF f.isInt THEN str(f.n) ELSE f.tok

RecordText(r) == join([i \in 1..Len(r) |-> FieldText(r[i])], "-")

\* the records joined with "|", with or without the outer separators
Encode(batch, wrap) ==
    LET body == join([i \in 1..Len(batch) |-> RecordText(batch[i])], "|")
    IN  IF wrap THEN <<"|">> \o body \o <<"|">> ELSE body

\* a record of a integer fields, all different for a seed above 0
IntRecord(a, seed) == [i \in 1..a |-> IntField((seed * (i + 3)) % 17)]

WrongArityRecords(a) ==
    { SubSeq(IntRecord(a, 1), 1, a - 1),
      IntRecord(a, 1) \o <<IntField(5)>>,
      <<>> }

BadFieldRecords(a) ==
    { [IntRecord(a, 1) EXCEPT ![1] = JunkField(<<"x">>)],
      [IntRecord(a, 2) EXCEPT ![a] = JunkField(<<>>)] }

RawRecords(kind) ==
    { IntRecord(Arity(kind), seed) : seed \in 0..MaxSeed }
        \cup WrongArityRecords(Arity(kind)) \cup BadFieldRecords(Arity(kind))

RECURSIVE SeqsUpTo(_, _)
SeqsUpTo(S, n) ==
    IF n = 0 THEN { <<>> }
    ELSE LET shorter == SeqsUpTo(S, n - 1)
         IN  shorter \cup { Append(q, x) : q \in { t \in shorter : Len(t) = n - 1 }, x \in S }

(***************************************************************************)
(* The state of the parts a specification leaves alone.                    *)
(***************************************************************************)
None == -1

NoOutcome == [kind |-> "raise", batch |-> <<>>]
NoResp == [net |-> "none", status |-> 0, unpack |-> NoOutcome, json |-> NoOutcome]
NoArgs == [enh_min |-> None, enh_max |-> None]

FetchIdle ==
    /\ fop = "none" /\ fpc = "idle" /\ fstage = "none" /\ fargs = NoArgs
    /\ fresp = NoResp /\ fret = Ok(<<>>) /\ fattempts = 0
    /\ fdata = <<>> /\ fidx = 0
    /\ fitem = None /\ freqs = <<>> /\ fmarket = <<>> /\ fbresps = <<>>

HotIdle ==
    /\ now = 0 /\ item_db_cache = "None" /\ db_loads = 0
    /\ hpc = [h \in Handlers |-> "idle"]
    /\ hstart = [h \in Handlers |-> 0]
    /\ hafter = [h \in Handlers |-> {}]
    /\ hup = [h \in Handlers |-> 0]
    /\ hresp = [h \in Handlers |-> NoResp]
    /\ hret = [h \in Handlers |-> Ok(<<>>)]

ParseIdle ==
    /\ pkind = "market" /\ pbatch = <<>> /\ pwrap = FALSE
    /\ pphase = "idle" /\ pout = Ok(<<>>)

EnhIdle ==
    /\ ewhich = "app" /\ emin = 0 /\ emax = 0
    /\ ephase = "idle" /\ eout = Ok(<<>>)

\* garmoth_cache = {}
EmptyDict == [k \in {} |-> k]
NoData == [kind |-> "none", is_list |-> FALSE, bidding |-> <<>>, info |-> "None"]
NoReturn == [orders |-> <<>>, info |-> "None", fetch_time |-> 0]

OrdersIdle ==
    /\ otime = 0 /\ garmoth_cache = EmptyDict
    /\ opc = [c \in Handlers |-> "idle"]
    /\ okey = [c \in Handlers |-> <<>>]
    /\ onow = [c \in Handlers |-> 0]
    /\ onet = [c \in Handlers |-> 0]
    /\ oresp = [c \in Handlers |-> NoData]
    /\ oret = [c \in Handlers |-> Ok(NoReturn)]

NoPage == [page |-> 0, total_pages |-> 0, start_idx |-> 0, end_idx |-> 0, hotlist |-> <<>>]

PageIdle ==
    /\ all_hotlist = <<>> /\ req_page = 1
    /\ gphase = "idle" /\ gout = NoPage

MoreIdle == EnhIdle /\ OrdersIdle /\ PageIdle

(***************************************************************************)
(* SpecParse: one call of one parser on a generated text.                  *)
(***************************************************************************)
InitParse ==
    /\ pkind \in Kinds
    /\ pbatch \in SeqsUpTo(RawRecords(pkind), MaxBatch)
    /\ pwrap \in BOOLEAN
    /\ pphase = "input"
    /\ pout = Ok(<<>>)
    /\ FetchIdle /\ HotIdle /\ MoreIdle

CallParseMarket ==
    /\ pphase = "input" /\ pkind = "market"
    /\ pout' = parse_market_data(Encode(pbatch, pwrap))
    /\ pphase' = "parsed"
    /\ UNCHANGED <<pkind, pbatch, pwrap, varsFetch, varsHot, varsMore>>

CallParseBidding ==
    /\ pphase = "input" /\ pkind = "bidding"
    /\ pout' = parse_bidding_info(Encode(pbatch, pwrap))
    /\ pphase' = "parsed"
    /\ UNCHANGED <<pkind, pbatch, pwrap, varsFetch, varsHot, varsMore>>

CallParseHotlist ==
    /\ pphase = "input" /\ pkind = "hotlist"
    /\ pout' = parse_hotlist(Encode(pbatch, pwrap))
    /\ pphase' = "parsed"
    /\ UNCHANGED <<pkind, pbatch, pwrap, varsFetch, varsHot, varsMore>>

NextParse == CallParseMarket \/ CallParseBidding \/ CallParseHotlist

SpecParse == InitParse /\ [][NextParse]_vars

(***************************************************************************)
(* What the upstream's records stand for, read off the records themselves. *)
(***************************************************************************)
HasArity(kind, r) == Len(r) = Arity(kind)

WellFormed(kind, r) == HasArity(kind, r) /\ \A i \in 1..Len(r) : r[i].isInt

ExpectedMarket(r) ==
    [item_id |-> r[1].n, enhancement_min |-> r[2].n, enhancement_max |-> r[3].n,
     base_price |-> r[4].n, current_stock |-> r[5].n, total_trades |-> r[6].n,
     price_hardcap_min |-> r[7].n, price_hardcap_max |-> r[8].n,
     last_sale_price |-> r[9].n, last_sale_time |-> r[10].n,
     last_sale_time_ro |-> unix_to_local_time(r[10].n)]

ExpectedBidding(r) == [price |-> r[1].n, sell_orders |-> r[2].n, buy_orders |-> r[3].n]

ExpectedHotlist(r) ==
    [item_id |-> str(r[1].n), enh_min |-> r[2].n, enh_max |-> r[3].n,
     base_price |-> r[4].n, stock |-> r[5].n, total_trades |-> r[6].n,
     price_dir |-> r[7].n, price_change |-> r[8].n, price_min |-> r[9].n,
     price_max |-> r[10].n, last_sale_price |-> r[11].n,
     last_sale_time |-> r[12].n,
     last_sale_time_ro |-> unix_to_local_time(r[12].n)]

Expected(kind, r) ==
    IF kind = "market" THEN ExpectedMarket(r)
    ELSE IF kind = "bidding" THEN ExpectedBidding(r)
    ELSE ExpectedHotlist(r)

ExpectedAll(kind, batch) == [i \in 1..Len(batch) |-> Expected(kind, batch[i])]

ArityKept(kind, batch) == SelectSeq(batch, LAMBDA r : HasArity(kind, r))

WellFormedKept(kind, batch) == SelectSeq(batch, LAMBDA r : WellFormed(kind, r))

(***************************************************************************)
(* C8: for each of the three parsers a record whose field count differs    *)
(* from the arity of the parser is dropped without raising: the outcome of *)
(* the parse is the outcome on the batch without those records, and when   *)
(* the records of the right arity are all well formed the output is        *)
(* exactly these records, in their original order.                         *)
(***************************************************************************)
C8_WrongArityDropped ==
    pphase = "parsed" =>
        LET kept == ArityKept(pkind, pbatch)
        IN  /\ pout = Parse(pkind, Encode(kept, pwrap))
            /\ (\A i \in 1..Len(kept) : WellFormed(pkind, kept[i]))
                  => pout = Ok(ExpectedAll(pkind, kept))

C8_Witness ==
    /\ pphase = "parsed" /\ pkind = "hotlist"
    /\ Len(pbatch) = 3
    /\ WellFormed(pkind, pbatch[1])
    /\ Len(pbatch[2]) = Arity(pkind) + 1
    /\ WellFormed(pkind, pbatch[3])
    /\ pbatch[1] # pbatch[3]
    /\ pout = Ok(<<ExpectedHotlist(pbatch[1]), ExpectedHotlist(pbatch[3])>>)

(***************************************************************************)
(* C9: for each of the three parsers a record of the right arity with a    *)
(* field that is no integer is skipped alone: the parser does not fail and *)
(* returns every well-formed record of the batch.                          *)
(***************************************************************************)
C9_BadFieldSkippedAlone ==
    pphase = "parsed" => pout = Ok(ExpectedAll(pkind, WellFormedKept(pkind, pbatch)))

(***************************************************************************)
(* C10: market parser round trip: records of 10 non-negative integers,     *)
(* joined with "-" and "|" and wrapped in one leading and one trailing     *)
(* "|", parse to one entry per record, in order, whose ten named fields    *)
(* are the original integers, plus the timestamp text derived from         *)
(* last_sale_time.                                                         *)
(***************************************************************************)
C10_MarketRoundTrip ==
    (/\ pphase = "parsed" /\ pkind = "market" /\ pwrap
     /\ \A i \in 1..Len(pbatch) : WellFormed("market", pbatch[i]))
    => /\ ~pout.raised
       /\ Len(pout.val) = Len(pbatch)
       /\ \A i \in 1..Len(pbatch) :
            /\ DOMAIN pout.val[i]
                 = {MARKET_FIELDS[k] : k \in 1..10} \cup {"last_sale_time_ro"}
            /\ \A k \in 1..10 : pout.val[i][MARKET_FIELDS[k]] = pbatch[i][k].n
            /\ pout.val[i]["last_sale_time_ro"] = unix_to_local_time(pbatch[i][10].n)

C10_Witness ==
    /\ pphase = "parsed" /\ pkind = "market" /\ pwrap
    /\ Len(pbatch) = 2
    /\ \A i \in 1..2 : WellFormed("market", pbatch[i])
    /\ pbatch[1][10].n >= 10
    /\ pbatch[1] # pbatch[2]
    /\ Len(pout.val) = 2
    /\ pout.val[2]["item_id"] = pbatch[2][1].n

(***************************************************************************)
(* The upstream.  A response is a network error, or a status with a body.  *)
(* The body is seen through the two decoders only: what unpack() makes of  *)
(* it (an exception, text, bytes that are UTF-8 text, bytes that are not)  *)
(* and what response.json() makes of it (an exception, a document without  *)
(* resultMsg, a document with a resultMsg text).                           *)
(***************************************************************************)
Statuses == {200, 404, 429, 500}

\* a market sublist whose first and last entry have the same enhancement
\* range, with an entry between them whose minimum is above its maximum
MarketSpread ==
    LET a == Arity("market")
    IN  <<IntRecord(a, 1), IntRecord(a, 3), [IntRecord(a, 1) EXCEPT ![4] = IntField(0)]>>

\* a bidding ladder out of order, two of its orders at the same price
LadderTied ==
    LET a == Arity("bidding")
    IN  <<IntRecord(a, 2), IntRecord(a, 1), [IntRecord(a, 2) EXCEPT ![a] = IntField(0)]>>

SampleBatches(kind) ==
    LET a == Arity(kind)
    IN  { <<IntRecord(a, 1), IntRecord(a, 2)>>,
          <<IntRecord(a, 2), SubSeq(IntRecord(a, 1), 1, a - 1), IntRecord(a, 0)>>,
          <<IntRecord(a, 1), [IntRecord(a, 2) EXCEPT ![a] = JunkField(<<"x">>)]>> }
        \cup (IF kind = "market" THEN {MarketSpread}
              ELSE IF kind = "bidding" THEN {LadderTied} ELSE {})

UnpackOutcomes(kind) ==
    { NoOutcome, [kind |-> "bytes_invalid", batch |-> <<>>],
      [kind |-> "str", batch |-> <<>>], [kind |-> "bytes", batch |-> <<>>] }
        \cup { [kind |-> k, batch |-> b] : k \in {"str", "bytes"}, b \in SampleBatches(kind) }

JsonOutcomes(kind) ==
    { NoOutcome, [kind |-> "nofield", batch |-> <<>>] }
        \cup { [kind |-> "field", batch |-> b] : b \in SampleBatches(kind) }

Responses(kind) ==
    { [net |-> "error", status |-> 0, unpack |-> NoOutcome, json |-> NoOutcome] }
        \cup { [net |-> "ok", status |-> st, unpack |-> NoOutcome, json |-> NoOutcome] :
                 st \in Statuses \ {200} }
        \cup { [net |-> "ok", status |-> 200, unpack |-> u, json |-> j] :
                 u \in UnpackOutcomes(kind), j \in JsonOutcomes(kind) }

\* the text an outcome carries
Text(outcome) == IF outcome.batch = <<>> THEN <<>> ELSE Encode(outcome.batch, TRUE)

(***************************************************************************)
(* api_request: one requests.post; a network error raises, and             *)
(* raise_for_status() raises on every 4xx and 5xx status; the except       *)
(* clause logs and re-raises.  There is no second attempt.                 *)
(***************************************************************************)
api_request(resp) ==
    IF resp.net = "error" \/ resp.status >= 400 THEN Raise ELSE Ok(resp)

\* response.json().get("resultMsg", "")
json_resultMsg(resp) ==
    IF resp.json.kind = "raise" THEN Raise
    ELSE IF resp.json.kind = "nofield" THEN Ok(<<>>)
    ELSE Ok(Text(resp.json))

\* unpack(response.content) of huffman_binary_decode
unpack(resp) ==
    IF resp.unpack.kind = "raise" THEN Raise
    ELSE Ok([type |-> IF resp.unpack.kind = "str" THEN "str" ELSE "bytes",
             utf8 |-> resp.unpack.kind # "bytes_invalid",
             text |-> Text(resp.unpack)])

\* except Exception: ... return []
CatchAll(outcome) == IF outcome.raised THEN Ok(<<>>) ELSE outcome

(***************************************************************************)
(* fetch_market_data                                                       *)
(***************************************************************************)
fetch_market_data_try(resp) ==
    IF api_request(resp).raised THEN Raise
    ELSE IF json_resultMsg(resp).raised THEN Raise
    ELSE parse_market_data(json_resultMsg(resp).val)

fetch_market_data_uncaught(resp) == fetch_market_data_try(resp)
fetch_market_data(resp) == CatchAll(fetch_market_data_try(resp))

(***************************************************************************)
(* fetch_bidding_info                                                      *)
(***************************************************************************)
\* parse_bidding_info on what unpack returned: bytes pass the falsy test
\* when empty, and otherwise raise TypeError at decoded_str.strip("|")
parse_bidding_decoded(decoded) ==
    IF decoded.type = "bytes"
    THEN IF decoded.text = <<>> THEN Ok(<<>>) ELSE Raise
    ELSE parse_bidding_info(decoded.text)

\* the inner except: the JSON fallback, [] when it fails too
bidding_json_fallback(resp) ==
    IF json_resultMsg(resp).raised THEN Ok(<<>>)
    ELSE CatchAll(parse_bidding_info(json_resultMsg(resp).val))

fetch_bidding_info_try(resp) ==
    IF api_request(resp).raised THEN Raise
    ELSE IF unpack(resp).raised THEN bidding_json_fallback(resp)
    ELSE IF parse_bidding_decoded(unpack(resp).val).raised
         THEN bidding_json_fallback(resp)
         ELSE parse_bidding_decoded(unpack(resp).val)

fetch_bidding_info(resp) == CatchAll(fetch_bidding_info_try(resp))

(***************************************************************************)
(* fetch_hotlist                                                           *)
(***************************************************************************)
\* if isinstance(decoded, bytes): decoded = decoded.decode('utf-8')
decode_utf8(decoded) ==
    IF decoded.type = "bytes" /\ ~decoded.utf8 THEN Raise ELSE Ok(decoded.text)

fetch_hotlist_try(resp) ==
    IF api_request(resp).raised THEN Raise
    ELSE IF unpack(resp).raised THEN Raise
    ELSE IF decode_utf8(unpack(resp).val).raised THEN Raise
    ELSE parse_hotlist(decode_utf8(unpack(resp).val).val)

fetch_hotlist_uncaught(resp) == fetch_hotlist_try(resp)
fetch_hotlist(resp) == CatchAll(fetch_hotlist_try(resp))

(***************************************************************************)
(* get_market_and_bidding                                                  *)
(***************************************************************************)
\* the enhancement filter, applied when both arguments are given
filter_enhancement_min_only(market_data, enh_min, enh_max) ==
    IF enh_min # None
    THEN SelectSeq(market_data, LAMBDA item : item["enhancement_min"] = enh_min)
    ELSE market_data
filter_enhancement(market_data, enh_min, enh_max) ==
    IF enh_min # None /\ enh_max # None
    THEN SelectSeq(market_data,
                   LAMBDA item : /\ item["enhancement_min"] = enh_min
                                 /\ item["enhancement_max"] = enh_max)
    ELSE market_data

\* list.sort(key=price, reverse=True): stable, equal prices keep their order
RECURSIVE insert_desc_unstable(_, _)
insert_desc_unstable(sorted, x) ==
    IF sorted = <<>> THEN <<x>>
    ELSE IF Head(sorted)["price"] > x["price"]
         THEN <<Head(sorted)>> \o insert_desc_unstable(Tail(sorted), x)
         ELSE <<x>> \o sorted
RECURSIVE insert_desc(_, _)
insert_desc(sorted, x) ==
    IF sorted = <<>> THEN <<x>>
    ELSE IF Head(sorted)["price"] >= x["price"]
         THEN <<Head(sorted)>> \o insert_desc(Tail(sorted), x)
         ELSE <<x>> \o sorted

RECURSIVE sort_price_desc(_)
sort_price_desc(ladder) ==
    IF ladder = <<>> THEN <<>>
    ELSE insert_desc(sort_price_desc(SubSeq(ladder, 1, Len(ladder) - 1)),
                     ladder[Len(ladder)])

\* item["bidding_info"] = fetch_bidding_info(...); sorted when not empty
with_bidding_info(item, ladder) ==
    item @@ ("bidding_info" :> IF ladder # <<>> THEN sort_price_desc(ladder) ELSE ladder)

(***************************************************************************)
(* SpecFetch: one caller runs one of the three fetch operations, or        *)
(* get_market_and_bidding, against the upstream.                           *)
(***************************************************************************)
EnrichArgs ==
    { NoArgs, [enh_min |-> 5, enh_max |-> None],
      [enh_min |-> 5, enh_max |-> 6], [enh_min |-> 0, enh_max |-> 0] }

\* the item_id and sub_key arguments of the callers
ItemIds == {4, 9}
SubKeys == {0, 6}

\* the JSON payloads of the three endpoints
market_payload(item_id) == [endpoint |-> "market", mainKey |-> item_id, subKey |-> None]
bidding_payload(item_id, sub_key) ==
    [endpoint |-> "bidding", mainKey |-> item_id, subKey |-> sub_key]
hotlist_payload == [endpoint |-> "hotlist", mainKey |-> None, subKey |-> None]

\* sub_key = item["enhancement_max"]
sub_key_min(item) == item["enhancement_min"]
sub_key_of(item) == item["enhancement_max"]

\* the upstream's answers to the bidding fetches of get_market_and_bidding:
\* a network error, a body unpack cannot decode, or a decoded ladder
EnrichBiddingResponses ==
    { r \in Responses("bidding") :
        /\ r.json = NoOutcome
        /\ r.status \in {0, 200}
        /\ r.unpack.kind \in {"raise", "str"} }

\* what the fetch operations return on each response
MarketResult == [r \in Responses("market") |-> fetch_market_data(r)]
BiddingResult == [r \in EnrichBiddingResponses |-> fetch_bidding_info(r)]

InitFetch == ParseIdle /\ FetchIdle /\ HotIdle /\ MoreIdle

\* requests.post of api_request: the call is on its way
Post(op, stage, payload) ==
    /\ fop' = op
    /\ fstage' = stage
    /\ fpc' = "wait"
    /\ fattempts' = 1
    /\ freqs' = Append(freqs, payload)

CallFetchMarketData ==
    /\ fpc = "idle"
    /\ \E item_id \in ItemIds :
         /\ fitem' = item_id
         /\ Post("market", "market", market_payload(item_id))
    /\ UNCHANGED <<fargs, fresp, fret, fdata, fidx, fmarket, fbresps,
                   varsParse, varsHot, varsMore>>

CallFetchBiddingInfo ==
    /\ fpc = "idle"
    /\ \E item_id \in ItemIds, sub_key \in SubKeys :
         /\ fitem' = item_id
         /\ Post("bidding", "bidding", bidding_payload(item_id, sub_key))
    /\ UNCHANGED <<fargs, fresp, fret, fdata, fidx, fmarket, fbresps,
                   varsParse, varsHot, varsMore>>

CallFetchHotlist ==
    /\ fpc = "idle"
    /\ Post("hotlist", "hotlist", hotlist_payload)
    /\ UNCHANGED <<fargs, fresp, fret, fdata, fidx, fitem, fmarket, fbresps,
                   varsParse, varsHot, varsMore>>

CallGetMarketAndBidding ==
    /\ fpc = "idle"
    /\ \E a \in EnrichArgs : fargs' = a
    /\ \E item_id \in ItemIds :
         /\ fitem' = item_id
         /\ Post("enrich", "market", market_payload(item_id))
    /\ UNCHANGED <<fresp, fret, fdata, fidx, fmarket, fbresps,
                   varsParse, varsHot, varsMore>>

\* the response to a plain fetch_market_data reaches the caller
MarketResponse ==
    /\ fpc = "wait" /\ fop = "market"
    /\ \E resp \in Responses("market") :
         /\ fresp' = resp
         /\ fret' = MarketResult[resp]
    /\ fpc' = IF fret'.raised THEN "crashed" ELSE "done"
    /\ UNCHANGED <<fop, fstage, fargs, fattempts, fdata, fidx,
                   fitem, freqs, fmarket, fbresps, varsParse, varsHot, varsMore>>

BiddingResponse ==
    /\ fpc = "wait" /\ fop = "bidding"
    /\ \E resp \in Responses("bidding") :
         /\ fresp' = resp
         /\ fret' = fetch_bidding_info(resp)
    /\ fpc' = IF fret'.raised THEN "crashed" ELSE "done"
    /\ UNCHANGED <<fop, fstage, fargs, fattempts, fdata, fidx,
                   fitem, freqs, fmarket, fbresps, varsParse, varsHot, varsMore>>

HotlistResponse ==
    /\ fpc = "wait" /\ fop = "hotlist"
    /\ \E resp \in Responses("hotlist") :
         /\ fresp' = resp
         /\ fret' = fetch_hotlist(resp)
    /\ fpc' = IF fret'.raised THEN "crashed" ELSE "done"
    /\ UNCHANGED <<fop, fstage, fargs, fattempts, fdata, fidx,
                   fitem, freqs, fmarket, fbresps, varsParse, varsHot, varsMore>>

\* get_market_and_bidding: the market sublist arrives, is filtered, and the
\* loop starts the bidding fetch of the first entry, or ends at once
EnrichMarketResponse ==
    /\ fpc = "wait" /\ fop = "enrich" /\ fstage = "market"
    /\ \E resp \in Responses("market") :
         /\ fresp' = resp
         /\ LET got == MarketResult[resp]
                data == filter_enhancement(got.val, fargs.enh_min, fargs.enh_max)
            IN  IF got.raised
                THEN /\ fpc' = "crashed" /\ fret' = got
                     /\ UNCHANGED <<fstage, fattempts, fdata, fidx, freqs, fmarket>>
                ELSE IF data = <<>>
                THEN /\ fpc' = "done" /\ fret' = Ok(<<>>) /\ fmarket' = got.val
                     /\ UNCHANGED <<fstage, fattempts, fdata, fidx, freqs>>
                ELSE /\ Post("enrich", "bidding",
                             bidding_payload(fitem, sub_key_of(data[1])))
                     /\ fmarket' = got.val
                     /\ fdata' = data /\ fidx' = 1
                     /\ UNCHANGED fret
    /\ UNCHANGED <<fop, fargs, fitem, fbresps, varsParse, varsHot, varsMore>>

\* the bidding ladder of entry fidx arrives, is sorted and attached; the loop
\* goes on to the bidding fetch of the next entry or returns market_data
EnrichBiddingResponse ==
    /\ fpc = "wait" /\ fop = "enrich" /\ fstage = "bidding"
    /\ \E resp \in EnrichBiddingResponses :
         /\ fresp' = resp
         /\ fbresps' = Append(fbresps, resp)
         /\ LET got == BiddingResult[resp]
                data == [fdata EXCEPT ![fidx] = with_bidding_info(fdata[fidx], got.val)]
            IN  IF got.raised
                THEN /\ fpc' = "crashed" /\ fret' = got
                     /\ UNCHANGED <<fstage, fattempts, fdata, fidx, freqs>>
                ELSE IF fidx = Len(fdata)
                THEN /\ fpc' = "done" /\ fret' = Ok(data) /\ fdata' = data
                     /\ UNCHANGED <<fstage, fattempts, fidx, freqs>>
                ELSE /\ Post("enrich", "bidding",
                             bidding_payload(fitem, sub_key_of(data[fidx + 1])))
                     /\ fdata' = data /\ fidx' = fidx + 1
                     /\ UNCHANGED fret
    /\ UNCHANGED <<fop, fargs, fitem, fmarket, varsParse, varsHot, varsMore>>

NextFetch ==
    \/ CallFetchMarketData
    \/ CallFetchBiddingInfo
    \/ CallFetchHotlist
    \/ CallGetMarketAndBidding
    \/ MarketResponse
    \/ BiddingResponse
    \/ HotlistResponse
    \/ EnrichMarketResponse
    \/ EnrichBiddingResponse

SpecFetch == InitFetch /\ [][NextFetch]_vars

(***************************************************************************)
(* Failures of a fetch, read off the upstream's response.                  *)
(***************************************************************************)
TransportFailed(resp) == resp.net = "error" \/ resp.status >= 400

Retryable(resp) == resp.net = "error" \/ resp.status = 429 \/ resp.status >= 500

NotRetryable(resp) ==
    resp.net = "ok" /\ resp.status >= 400 /\ resp.status < 500 /\ resp.status # 429

\* neither the binary decode nor the JSON field gives a text
JsonFailed(resp) == resp.json.kind \in {"raise", "nofield"}

DecodeFailed(op, resp) ==
    IF op = "market" THEN JsonFailed(resp)
    ELSE resp.unpack.kind \in {"raise", "bytes_invalid"} /\ JsonFailed(resp)

(***************************************************************************)
(* C4: Transport send: a network-level failure or a 5xx / 429 status is    *)
(* retried up to the bound (3) and the failure is raised once the retries  *)
(* are exhausted; a 4xx status other than 429 is not retried and fails     *)
(* after exactly one attempt.                                              *)
(***************************************************************************)
C4_RetryDiscipline ==
    fpc = "done" =>
        /\ Retryable(fresp) => fattempts \in {3, 3 + 1}
        /\ NotRetryable(fresp) => fattempts = 1

(***************************************************************************)
(* C5: graceful degradation: no exception of a fetch operation reaches its *)
(* caller; a transport failure or a decode failure of market sublist,      *)
(* bidding info or hotlist hands the caller the empty sequence, and        *)
(* get_market_and_bidding returns the empty sequence when its market       *)
(* sublist fetch fails.                                                    *)
(***************************************************************************)
C5_GracefulDegradation ==
    /\ fpc # "crashed"
    /\ ~fret.raised
    /\ (/\ fpc = "done" /\ fop \in Kinds
        /\ TransportFailed(fresp) \/ DecodeFailed(fop, fresp))
       => fret = Ok(<<>>)
    /\ (/\ fpc = "done" /\ fop = "enrich" /\ fstage = "market"
        /\ TransportFailed(fresp) \/ DecodeFailed("market", fresp))
       => fret = Ok(<<>>)

C5_Witness ==
    /\ fpc = "done" /\ fop = "enrich" /\ fstage = "market"
    /\ fresp.net = "ok" /\ fresp.status = 500
    /\ fret = Ok(<<>>)

(***************************************************************************)
(* C6: decoder fallback equivalence: on every endpoint that decodes a      *)
(* response (bidding info, hotlist), when the binary unpack fails and the  *)
(* body is a JSON document carrying the text field, the fetch yields       *)
(* exactly the records that parsing the JSON text field yields.            *)
(***************************************************************************)
C6_FallbackEquivalence ==
    (/\ fpc = "done" /\ fop \in {"bidding", "hotlist"}
     /\ ~TransportFailed(fresp)
     /\ fresp.unpack.kind = "raise" /\ fresp.json.kind = "field")
    => fret = CatchAll(Parse(fop, Text(fresp.json)))

(***************************************************************************)
(* C7: when the binary unpack succeeds and yields bytes, the bytes are     *)
(* taken as UTF-8 text and the records are parsed from that text, for      *)
(* bidding info as well as for the hotlist; a bytes result is not handled  *)
(* as a decode failure.                                                    *)
(***************************************************************************)
C7_BytesAsText ==
    (/\ fpc = "done" /\ fop \in {"bidding", "hotlist"}
     /\ ~TransportFailed(fresp)
     /\ fresp.unpack.kind = "bytes"
     /\ ~Parse(fop, Text(fresp.unpack)).raised)
    => fret = Parse(fop, Text(fresp.unpack))

(***************************************************************************)
(* get_market_and_bidding has returned: what its result is made of.        *)
(***************************************************************************)
EnrichDone == fop = "enrich" /\ fpc = "done"

\* an entry of the result without the ladder attached to it
market_fields(item) == [k \in DOMAIN item \ {"bidding_info"} |-> item[k]]

BothGiven == fargs.enh_min # None /\ fargs.enh_max # None

\* the positions in the parsed sublist of the entries with the asked range
Matching ==
    { i \in 1..Len(fmarket) : /\ fmarket[i]["enhancement_min"] = fargs.enh_min
                              /\ fmarket[i]["enhancement_max"] = fargs.enh_max }

\* the k-th smallest of a set of positions
Nth(S, k) == CHOOSE i \in S : Cardinality({ j \in S : j <= i }) = k

\* L holds the orders of R, each once
SameOrders(L, R) ==
    /\ Len(L) = Len(R)
    /\ \E p \in Permutations(1..Len(R)) : \A k \in 1..Len(L) : L[k] = R[p[k]]

\* L holds the orders of R by price descending, orders of the same price in
\* the order they have in R
SortedStable(L, R) ==
    /\ Len(L) = Len(R)
    /\ \E p \in Permutations(1..Len(R)) :
         /\ \A k \in 1..Len(L) : L[k] = R[p[k]]
         /\ \A j, k \in 1..Len(L) :
              j < k => \/ L[j]["price"] > L[k]["price"]
                       \/ L[j]["price"] = L[k]["price"] /\ p[j] < p[k]

\* the fetch did not give a ladder: transport or decode failure
BiddingFetchFailed(resp) == TransportFailed(resp) \/ DecodeFailed("bidding", resp)

(***************************************************************************)
(* C14: when both enh_min and enh_max are supplied, the result of enrich   *)
(* holds exactly the parsed market entries whose enhancement_min and       *)
(* enhancement_max equal them, in their original order; when either is    *)
(* not supplied nothing is filtered.                                       *)
(***************************************************************************)
C14_EnhancementFilter ==
    EnrichDone =>
        /\ BothGiven =>
             /\ Len(fret.val) = Cardinality(Matching)
             /\ \A k \in 1..Len(fret.val) :
                  market_fields(fret.val[k]) = fmarket[Nth(Matching, k)]
        /\ ~BothGiven =>
             /\ Len(fret.val) = Len(fmarket)
             /\ \A k \in 1..Len(fret.val) : market_fields(fret.val[k]) = fmarket[k]

C14_Witness ==
    /\ EnrichDone /\ BothGiven
    /\ Len(fmarket) = 3 /\ Matching = {1, 3}
    /\ Len(fret.val) = 2
    /\ market_fields(fret.val[2]) = fmarket[3]

(***************************************************************************)
(* C15: the bidding ladder attached to every entry enrich returns is       *)
(* sorted by price descending whatever order the upstream sent it in, and  *)
(* orders of equal price keep the order the upstream sent them in.         *)
(***************************************************************************)
C15_LadderSortedStable ==
    EnrichDone =>
        \A k \in 1..Len(fret.val) :
            SortedStable(fret.val[k]["bidding_info"], BiddingResult[fbresps[k]].val)

C15_Witness ==
    /\ EnrichDone
    /\ \E k \in 1..Len(fret.val) :
         LET L == fret.val[k]["bidding_info"]
             R == BiddingResult[fbresps[k]].val
         IN  /\ Len(R) = 3 /\ R[1]["price"] = R[3]["price"] /\ R[1] # R[3]
             /\ R[2]["price"] < R[1]["price"]
             /\ L = <<R[1], R[3], R[2]>>

(***************************************************************************)
(* C16: enrich issues one bidding fetch per surviving entry, keyed by      *)
(* (item_id, that entry's enhancement_max); when the fetch for an entry    *)
(* fails that entry gets the empty ladder, every entry gets the ladder of  *)
(* its own fetch, and the entries come back in their original order.       *)
(***************************************************************************)
C16_FetchPerEntry ==
    EnrichDone =>
        /\ Len(freqs) = 1 + Len(fret.val)
        /\ Len(fbresps) = Len(fret.val)
        /\ \A k \in 1..Len(fret.val) :
             /\ freqs[k + 1] = [endpoint |-> "bidding", mainKey |-> fitem,
                                subKey |-> fret.val[k]["enhancement_max"]]
             /\ BiddingFetchFailed(fbresps[k]) => fret.val[k]["bidding_info"] = <<>>
             /\ SameOrders(fret.val[k]["bidding_info"], BiddingResult[fbresps[k]].val)
        /\ \E f \in [1..Len(fret.val) -> 1..Len(fmarket)] :
             /\ \A j, k \in 1..Len(fret.val) : j < k => f[j] < f[k]
             /\ \A k \in 1..Len(fret.val) : market_fields(fret.val[k]) = fmarket[f[k]]

C16_Witness ==
    /\ EnrichDone /\ Len(fret.val) >= 2
    /\ fbresps[1].net = "error" /\ fret.val[1]["bidding_info"] = <<>>
    /\ fret.val[2]["bidding_info"] # <<>>
    /\ fret.val[1]["enhancement_max"] # fret.val[2]["enhancement_max"]
    /\ fret.val[2]["enhancement_min"] # fret.val[2]["enhancement_max"]

(***************************************************************************)
(* C17: every MarketEntry the market parser produces and enrich returns    *)
(* has enhancement_min <= enhancement_max, whatever delimited text the     *)
(* upstream sends.                                                         *)
(***************************************************************************)
C17_EnhancementOrdered ==
    (fpc = "done" /\ fop \in {"market", "enrich"})
        => \A k \in 1..Len(fret.val) :
               fret.val[k]["enhancement_min"] <= fret.val[k]["enhancement_max"]

(***************************************************************************)
(* Spec: the web application serving the hotlist (the landing page of      *)
(* index and api_hotlist), one request per handler, the handlers running   *)
(* at the same time as the threads of the server do.                       *)
(***************************************************************************)
\* the upstream's answers to the hotlist call: a network error, a 500
\* status, a body that does not decode, and three hotlist texts, one of
\* them with a field that is no integer
HotResponses ==
    { r \in Responses("hotlist") :
        /\ r.json = NoOutcome
        /\ r.status \in {0, 200, 500}
        /\ \/ r.unpack.kind = "raise"
           \/ r.unpack.kind = "str" /\ r.unpack.batch # <<>> }

\* what fetch_hotlist returns on each of them
HotlistResult == [r \in HotResponses |-> fetch_hotlist(r)]

Init == ParseIdle /\ FetchIdle /\ HotIdle /\ MoreIdle

\* time.time() moves on
Tick ==
    /\ now < MaxTicks * TickLen
    /\ now' = now + TickLen
    /\ UNCHANGED <<item_db_cache, db_loads, hpc, hstart, hafter, hup, hresp, hret,
                   varsParse, varsFetch, varsMore>>

\* a request reaches index (no search active) or api_hotlist, which begin
\* with get_item_db: if _item_db_cache is None
GetItemDbCheck(h) ==
    /\ hpc[h] = "idle"
    /\ hpc' = [hpc EXCEPT ![h] = IF item_db_cache = "None" THEN "load_db"
                                 ELSE "fetch_hotlist"]
    /\ UNCHANGED <<now, item_db_cache, db_loads, hstart, hafter, hup, hresp, hret,
                   varsParse, varsFetch, varsMore>>

\* get_item_db: json.load of the cache file, or {} when that raises
GetItemDbLoad(h) ==
    /\ hpc[h] = "load_db"
    /\ \E loaded \in {"items", "empty"} : item_db_cache' = loaded
    /\ db_loads' = db_loads + 1
    /\ hpc' = [hpc EXCEPT ![h] = "fetch_hotlist"]
    /\ UNCHANGED <<now, hstart, hafter, hup, hresp, hret, varsParse, varsFetch, varsMore>>

\* fetch_hotlist: api_request posts to the hotlist endpoint
FetchHotlistPost(h) ==
    /\ hpc[h] = "fetch_hotlist"
    /\ hstart' = [hstart EXCEPT ![h] = now]
    /\ hafter' = [hafter EXCEPT ![h] = { g \in Handlers : hpc[g] = "done" }]
    /\ hup' = [hup EXCEPT ![h] = hup[h] + 1]
    /\ hpc' = [hpc EXCEPT ![h] = "wait"]
    /\ UNCHANGED <<now, item_db_cache, db_loads, hresp, hret, varsParse, varsFetch, varsMore>>

\* fetch_hotlist: the response arrives, is decoded and parsed, and the list
\* goes back to the route handler
FetchHotlistResponse(h) ==
    /\ hpc[h] = "wait"
    /\ \E resp \in HotResponses :
         /\ hresp' = [hresp EXCEPT ![h] = resp]
         /\ hret' = [hret EXCEPT ![h] = HotlistResult[resp]]
    /\ hpc' = [hpc EXCEPT ![h] = IF hret'[h].raised THEN "crashed" ELSE "done"]
    /\ UNCHANGED <<now, item_db_cache, db_loads, hstart, hafter, hup,
                   varsParse, varsFetch, varsMore>>

Next ==
    \/ Tick
    \/ \E h \in Handlers : GetItemDbCheck(h)
    \/ \E h \in Handlers : GetItemDbLoad(h)
    \/ \E h \in Handlers : FetchHotlistPost(h)
    \/ \E h \in Handlers : FetchHotlistResponse(h)

Spec == Init /\ [][Next]_vars

\* the hotlist get of handler g fetched and succeeded
HotlistOk == { r \in HotResponses : ~fetch_hotlist_try(r).raised }

FetchedOk(g) == hpc[g] = "done" /\ hup[g] = 1 /\ hresp[g] \in HotlistOk

\* ... and had finished, less than the TTL of 30 earlier, when that of h began
Fresh(g, h) == g \in hafter[h] /\ FetchedOk(g) /\ hstart[h] - hstart[g] < 30

(***************************************************************************)
(* C1: Hotlist Cache: of two hotlist get calls made within the TTL window  *)
(* (30) only the first issues an upstream hotlist call and the second      *)
(* returns the stored sequence unchanged; a call made after the TTL has    *)
(* expired issues exactly one more upstream call.                          *)
(***************************************************************************)
C1_CachedWithinTTL ==
    \A h \in Handlers :
        hpc[h] = "done" =>
            /\ (\E g \in Handlers : Fresh(g, h))
                 => /\ hup[h] = 0
                    /\ \E g \in Handlers : Fresh(g, h) /\ hret[h] = hret[g]
            /\ (/\ \E g \in hafter[h] : FetchedOk(g)
                /\ ~\E g \in Handlers : Fresh(g, h))
                 => hup[h] = 1

(***************************************************************************)
(* C2: single-flight: at most one upstream hotlist call is in flight at    *)
(* any time, also when several request handlers get the hotlist at the     *)
(* same time.                                                              *)
(***************************************************************************)
C2_SingleFlight == Cardinality({ h \in Handlers : hpc[h] = "wait" }) <= 1

(***************************************************************************)
(* C3: a hotlist refresh that fails (transport or decode failure) returns  *)
(* the empty sequence, no cache entry existing before it, and touches no   *)
(* cached state: the step that ends a fetch writes nothing but the         *)
(* handler's own result, so no entry is changed in part or replaced by a   *)
(* failed fetch.                                                           *)
(***************************************************************************)
C3_FailedRefresh ==
    [][\A h \in Handlers :
          (hpc[h] = "wait" /\ hpc'[h] # "wait")
             => /\ item_db_cache' = item_db_cache
                /\ \A g \in Handlers \ {h} : hret'[g] = hret[g]
                /\ (TransportFailed(hresp'[h]) \/ DecodeFailed("hotlist", hresp'[h]))
                     => hpc'[h] = "done" /\ hret'[h] = Ok(<<>>)]_vars

C3_Witness ==
    \E g, h \in Handlers :
        /\ g # h
        /\ hpc[g] = "done" /\ hret[g] # Ok(<<>>)
        /\ hpc[h] = "done" /\ g \in hafter[h]
        /\ hresp[h].net = "error" /\ hret[h] = Ok(<<>>)

(***************************************************************************)
(* C18: the item directory is loaded at most once in the life of the       *)
(* process, also when several handlers call get_item_db before the first   *)
(* load has finished and when the first load fails (the empty directory    *)
(* is kept), and once loaded it is never changed again.                    *)
(***************************************************************************)
C18_LoadedOnce ==
    /\ db_loads <= 1
    /\ (item_db_cache = "None") = (db_loads = 0)

(***************************************************************************)
(* The enhancement label resolver.  Both applications carry an enh_name;   *)
(* src/app.py's is enh_name here, src/bdo_search/app.py's is               *)
(* search_enh_name.  A label is text, a sequence of characters.            *)
(***************************************************************************)
\* f"{n}" of an integer
format_int(n) == IF n < 0 THEN <<"-">> \o str(0 - n) ELSE str(n)

\* list[i] of Python: a negative index counts from the end, an index
\* outside the list raises IndexError
getitem(list, i) ==
    IF 0 <= i /\ i < Len(list) THEN Ok(list[i + 1])
    ELSE IF i < 0 /\ 0 - i <= Len(list) THEN Ok(list[Len(list) + i + 1])
    ELSE Raise

ENHANCEMENT_LABELS ==
    << <<>>,
       <<"P", "R", "I", " ", "(", "I", ")">>,
       <<"D", "U", "O", " ", "(", "I", "I", ")">>,
       <<"T", "R", "I", " ", "(", "I", "I", "I", ")">>,
       <<"T", "E", "T", " ", "(", "I", "V", ")">>,
       <<"P", "E", "N", " ", "(", "V", ")">> >>

\* f"{min_e} to {max_e}"
range_label(min_e, max_e) ==
    format_int(min_e) \o <<" ", "t", "o", " ">> \o format_int(max_e)

\* the index into ENHANCEMENT_LABELS of a gear level 16..20
gear_index_from_16(min_e) == min_e - 16
gear_index(min_e) == min_e - 15

enh_name(min_e, max_e) ==
    LET is_accessory == max_e <= 5
    IN  IF min_e = max_e /\ min_e = 0 THEN Ok(<<>>)
        ELSE IF min_e = max_e /\ is_accessory /\ 1 <= min_e /\ min_e <= 5
        THEN getitem(ENHANCEMENT_LABELS, min_e)
        ELSE IF min_e = max_e /\ 1 <= min_e /\ min_e <= 15
        THEN Ok(<<"+">> \o format_int(min_e))
        ELSE IF min_e = max_e /\ 16 <= min_e /\ min_e <= 20
        THEN getitem(ENHANCEMENT_LABELS, gear_index(min_e))
        ELSE Ok(range_label(min_e, max_e))

acc_labels ==
    << <<"B", "a", "s", "e">>, <<"P", "R", "I">>, <<"D", "U", "O">>,
       <<"T", "R", "I">>, <<"T", "E", "T">>, <<"P", "E", "N">> >>

\* ["+{}".format(i) for i in range(0, 16)] + ["PRI", "DUO", "TRI", "TET", "PEN"]
gear_labels ==
    [i \in 1..16 |-> <<"+">> \o format_int(i - 1)] \o Tail(acc_labels)

search_enh_name(min_e, max_e) ==
    IF min_e = max_e /\ min_e < Len(acc_labels) /\ max_e <= 5
    THEN getitem(acc_labels, min_e)
    ELSE IF min_e = max_e /\ min_e < Len(gear_labels)
    THEN getitem(gear_labels, min_e)
    ELSE Ok(range_label(min_e, max_e))

(***************************************************************************)
(* SpecEnh: one call of one of the two resolvers on a pair of levels.      *)
(***************************************************************************)
EnhLevels == (0 - (Len(acc_labels) + EnhSpan)) .. (Len(gear_labels) - 1 + EnhSpan)

InitEnh ==
    /\ ewhich \in {"app", "search"}
    /\ emin \in EnhLevels /\ emax \in EnhLevels
    /\ ephase = "input" /\ eout = Ok(<<>>)
    /\ ParseIdle /\ FetchIdle /\ HotIdle /\ OrdersIdle /\ PageIdle

CallEnhName ==
    /\ ephase = "input" /\ ewhich = "app"
    /\ eout' = enh_name(emin, emax)
    /\ ephase' = "called"
    /\ UNCHANGED <<ewhich, emin, emax, varsParse, varsFetch, varsHot, varsOrders, varsPage>>

CallSearchEnhName ==
    /\ ephase = "input" /\ ewhich = "search"
    /\ eout' = search_enh_name(emin, emax)
    /\ ephase' = "called"
    /\ UNCHANGED <<ewhich, emin, emax, varsParse, varsFetch, varsHot, varsOrders, varsPage>>

NextEnh == CallEnhName \/ CallSearchEnhName

SpecEnh == InitEnh /\ [][NextEnh]_vars

\* C11: for every n in 1..15 the label of (n, n) is "+n", whichever resolver
\* is asked and whatever the item
C11_PlusLabel ==
    (ephase = "called" /\ emin = emax /\ 1 <= emin /\ emin <= 15)
        => eout = Ok(<<"+">> \o str(emin))

\* C12: src/app.py's resolver gives the empty label for (0, 0) and, for n in
\* 16..20, the entry n - 15 of "", PRI (I), DUO (II), TRI (III), TET (IV),
\* PEN (V)
C12_TableLabel ==
    (ephase = "called" /\ ewhich = "app" /\ emin = emax)
        => /\ emin = 0 => eout = Ok(<<>>)
           /\ emin = 16 => eout = Ok(<<"P", "R", "I", " ", "(", "I", ")">>)
           /\ emin = 17 => eout = Ok(<<"D", "U", "O", " ", "(", "I", "I", ")">>)
           /\ emin = 18 => eout = Ok(<<"T", "R", "I", " ", "(", "I", "I", "I", ")">>)
           /\ emin = 19 => eout = Ok(<<"T", "E", "T", " ", "(", "I", "V", ")">>)
           /\ emin = 20 => eout = Ok(<<"P", "E", "N", " ", "(", "V", ")">>)

C12_Witness ==
    /\ ephase = "called" /\ ewhich = "app" /\ emin = 17 /\ emax = 17
    /\ eout = Ok(<<"D", "U", "O", " ", "(", "I", "I", ")">>)

\* C13: a resolver never raises, and for min # max, and for min = max below
\* 0 or above 20, it returns "min to max"
C13_RangeFallback ==
    (ephase = "called" /\ (emin # emax \/ emin < 0 \/ emin > 20))
        => eout = Ok(format_int(emin) \o <<" ", "t", "o", " ">> \o format_int(emax))

(***************************************************************************)
(* The landing page of index: the hotlist is sorted by total_trades and    *)
(* one page of it is cut out.                                              *)
(***************************************************************************)
ITEMS_PER_PAGE == 25

\* min(a, b), max(a, b)
min(a, b) == IF a <= b THEN a ELSE b
max(a, b) == IF a >= b THEN a ELSE b

\* list[start:end] of Python: a negative bound counts from the end, and
\* both bounds are clipped to the list
slice(list, start, end) ==
    LET clip(i) == IF i < 0 THEN max(Len(list) + i, 0) ELSE min(i, Len(list))
    IN  SubSeq(list, clip(start) + 1, clip(end))

\* all_hotlist.sort(key=total_trades, reverse=True): stable; the place of
\* entry i is the number of entries that go before it
sort_total_trades_desc(list) ==
    LET before(i) == { j \in 1..Len(list) :
                         \/ list[j]["total_trades"] > list[i]["total_trades"]
                         \/ list[j]["total_trades"] = list[i]["total_trades"] /\ j < i }
    IN  [k \in 1..Len(list) |->
            list[CHOOSE i \in 1..Len(list) : Cardinality(before(i)) = k - 1]]

\* total_pages = (total_items + items_per_page - 1) // items_per_page
total_pages_of(total_items, items_per_page) ==
    (total_items + items_per_page - 1) \div items_per_page

\* page = min(max(page, 1), total_pages)
clamp_page(page, total_pages) == min(max(page, 1), total_pages)

paginate(hotlist, page, items_per_page) ==
    LET sorted == sort_total_trades_desc(hotlist)
        total_items == Len(sorted)
        total_pages == total_pages_of(total_items, items_per_page)
        clamped == clamp_page(page, total_pages)
        start_idx == (clamped - 1) * items_per_page
        end_idx == min(start_idx + items_per_page, total_items)
    IN  [page |-> clamped, total_pages |-> total_pages,
         start_idx |-> start_idx, end_idx |-> end_idx,
         hotlist |-> slice(sorted, start_idx, end_idx)]

(***************************************************************************)
(* SpecPage: one landing page request on a hotlist of a given length.      *)
(***************************************************************************)
\* the hotlist fetch_hotlist returned: n entries, their trade counts neither
\* sorted nor all different
HotlistOf(n) == [i \in 1..n |-> [item_id |-> i, total_trades |-> (i * 7) % 5]]

InitPage ==
    /\ \E n \in 0..MaxHotlist : all_hotlist = HotlistOf(n)
    /\ req_page \in (0 - 1)..MaxPage
    /\ gphase = "input" /\ gout = NoPage
    /\ ParseIdle /\ FetchIdle /\ HotIdle /\ EnhIdle /\ OrdersIdle

Paginate ==
    /\ gphase = "input"
    /\ gout' = paginate(all_hotlist, req_page, ITEMS_PER_PAGE)
    /\ gphase' = "done"
    /\ UNCHANGED <<all_hotlist, req_page, varsParse, varsFetch, varsHot, varsEnh, varsOrders>>

NextPage == Paginate

SpecPage == InitPage /\ [][NextPage]_vars

(***************************************************************************)
(* C20: for every hotlist length, the empty list of a failed fetch         *)
(* included, and every requested page, the clamped page is at least 1,     *)
(* the start index (page - 1) * items_per_page is not negative and not     *)
(* past the end index, and the displayed slice holds at most               *)
(* items_per_page entries of the list sorted by total_trades descending.   *)
(***************************************************************************)
C20_PageWithinBounds ==
    gphase = "done" =>
        /\ gout.page >= 1
        /\ gout.start_idx = (gout.page - 1) * 25
        /\ gout.start_idx >= 0
        /\ gout.start_idx <= gout.end_idx
        /\ Len(gout.hotlist) <= 25
        /\ \A j, k \in 1..Len(gout.hotlist) :
             j < k => gout.hotlist[j]["total_trades"] >= gout.hotlist[k]["total_trades"]
        /\ \A k \in 1..Len(gout.hotlist) :
             \E i \in 1..Len(all_hotlist) : all_hotlist[i] = gout.hotlist[k]

(***************************************************************************)
(* The search application's orders cache: get_orders_from_garmoth_api      *)
(* keeps, per key, the orders and info of the last fetch that succeeded    *)
(* and the time it was made at.                                            *)
(***************************************************************************)
\* the default of the cache_time parameter
cache_time == 10

\* key = f"{item_id}_{sub_key}"
cache_key(item_id, sub_key) == item_id \o <<"_">> \o format_int(sub_key)

\* now - entry["ts"] < cache_time
fresh_inclusive(t, ts) == t - ts <= cache_time
fresh(t, ts) == t - ts < cache_time

\* the (item_id, sub_key) pairs the route handlers ask for
OrderCalls == { << <<"7">>, 11 >>, << <<"7", "1">>, 1 >> }

\* what scraper.get and response.json() give: an exception, a JSON document
\* that is no object, or an object; its "bidding" is a list of rows or not
\* (is_list), its "info" absent or a value
GarmothData ==
    { [kind |-> "raise", is_list |-> FALSE, bidding |-> <<>>, info |-> "None"],
      [kind |-> "list", is_list |-> FALSE, bidding |-> <<>>, info |-> "None"],
      [kind |-> "dict", is_list |-> FALSE, bidding |-> <<>>, info |-> "None"],
      [kind |-> "dict", is_list |-> TRUE,
       bidding |-> << <<1, 100, 0>>, <<3, 90>>, <<0, 80, 5>> >>, info |-> "info"] }

\* the loop over data["bidding"]: rows of three become orders
orders_of(data) ==
    IF ~data.is_list THEN <<>>
    ELSE LET rows == SelectSeq(data.bidding, LAMBDA order : Len(order) = 3)
         IN  [k \in 1..Len(rows) |->
                [sellers |-> rows[k][1], price |-> rows[k][2], buyers |-> rows[k][3]]]

\* result = {"orders": orders, "info": data.get("info")}
result_of(data) == [orders |-> orders_of(data), info |-> data.info]

\* {**result, "fetch_time": fetch_time}
with_fetch_time(result, fetch_time) ==
    [orders |-> result.orders, info |-> result.info, fetch_time |-> fetch_time]

(***************************************************************************)
(* SpecOrders: the route handlers of the search application call           *)
(* get_orders_from_garmoth_api, one call per handler, at the same time.    *)
(***************************************************************************)
InitOrders == ParseIdle /\ FetchIdle /\ HotIdle /\ MoreIdle

\* time.time() moves on
OrdersTick ==
    /\ otime < MaxTicks * OrdersTickLen
    /\ otime' = otime + OrdersTickLen
    /\ UNCHANGED <<garmoth_cache, opc, okey, onow, onet, oresp, oret,
                   varsParse, varsFetch, varsHot, varsEnh, varsPage>>

\* the call up to scraper.get: a fresh entry is returned with fetch_time 0,
\* otherwise the request goes out
CallGetOrders(c) ==
    /\ opc[c] = "idle"
    /\ \E call \in OrderCalls :
         LET key == cache_key(call[1], call[2])
         IN  /\ okey' = [okey EXCEPT ![c] = key]
             /\ onow' = [onow EXCEPT ![c] = otime]
             /\ IF key \in DOMAIN garmoth_cache /\ fresh(otime, garmoth_cache[key].ts)
                THEN /\ opc' = [opc EXCEPT ![c] = "done"]
                     /\ oret' = [oret EXCEPT
                                   ![c] = Ok(with_fetch_time(garmoth_cache[key].data, 0))]
                     /\ UNCHANGED onet
                ELSE /\ opc' = [opc EXCEPT ![c] = "wait"]
                     /\ onet' = [onet EXCEPT ![c] = onet[c] + 1]
                     /\ UNCHANGED oret
    /\ UNCHANGED <<otime, garmoth_cache, oresp,
                   varsParse, varsFetch, varsHot, varsEnh, varsPage>>

\* the answer arrives: an exception of the request or of the JSON decoding
\* gives the empty result, an object is turned into orders, stored under
\* the key with the time the call began at, and returned
OrdersResponse(c) ==
    /\ opc[c] = "wait"
    /\ \E data \in GarmothData :
         /\ oresp' = [oresp EXCEPT ![c] = data]
         /\ IF data.kind = "raise"
            THEN /\ oret' = [oret EXCEPT ![c] = Ok([orders |-> <<>>, fetch_time |-> 0 - 1,
                                                     info |-> "None"])]
                 /\ opc' = [opc EXCEPT ![c] = "done"]
                 /\ UNCHANGED garmoth_cache
            ELSE IF data.kind = "list"
            THEN /\ oret' = [oret EXCEPT ![c] = Raise]
                 /\ opc' = [opc EXCEPT ![c] = "crashed"]
                 /\ UNCHANGED garmoth_cache
            ELSE /\ garmoth_cache' =
                        (okey[c] :> [data |-> result_of(data), ts |-> onow[c]])
                            @@ garmoth_cache
                 /\ oret' = [oret EXCEPT
                               ![c] = Ok(with_fetch_time(result_of(data), otime - onow[c]))]
                 /\ opc' = [opc EXCEPT ![c] = "done"]
    /\ UNCHANGED <<otime, okey, onow, onet,
                   varsParse, varsFetch, varsHot, varsEnh, varsPage>>

NextOrders ==
    \/ OrdersTick
    \/ \E c \in Handlers : CallGetOrders(c)
    \/ \E c \in Handlers : OrdersResponse(c)

SpecOrders == InitOrders /\ [][NextOrders]_vars

(***************************************************************************)
(* C19: a call for a key whose entry was stamped less than cache_time (10) *)
(* before it issues no network call and returns the stored orders and      *)
(* info with fetch_time 0; at cache_time or more it fetches again; a fetch *)
(* that fails returns empty orders with fetch_time -1 and neither creates  *)
(* nor changes an entry; a fetch that succeeds stamps the entry of its own *)
(* key with the time of the call; and no call changes the entry of a key   *)
(* other than its own.                                                     *)
(***************************************************************************)
C19_OrdersCache ==
    [][\A c \in Handlers :
          /\ (opc[c] = "idle" /\ opc'[c] # "idle") =>
                /\ garmoth_cache' = garmoth_cache
                /\ okey'[c] \in DOMAIN garmoth_cache =>
                     LET entry == garmoth_cache[okey'[c]]
                     IN  IF onow'[c] - entry.ts < 10
                         THEN /\ opc'[c] = "done" /\ onet'[c] = 0
                              /\ ~oret'[c].raised
                              /\ oret'[c].val.orders = entry.data.orders
                              /\ oret'[c].val.info = entry.data.info
                              /\ oret'[c].val.fetch_time = 0
                         ELSE opc'[c] = "wait" /\ onet'[c] = 1
          /\ (opc[c] = "wait" /\ opc'[c] # "wait") =>
                /\ \A k \in DOMAIN garmoth_cache :
                     k # okey[c] => /\ k \in DOMAIN garmoth_cache'
                                    /\ garmoth_cache'[k] = garmoth_cache[k]
                /\ DOMAIN garmoth_cache' \subseteq DOMAIN garmoth_cache \cup {okey[c]}
                /\ oresp'[c].kind = "raise" =>
                     /\ garmoth_cache' = garmoth_cache
                     /\ opc'[c] = "done"
                     /\ oret'[c].val.orders = <<>>
                     /\ oret'[c].val.fetch_time = 0 - 1
                /\ oresp'[c].kind = "dict" =>
                     /\ okey[c] \in DOMAIN garmoth_cache'
                     /\ garmoth_cache'[okey[c]].ts = onow[c]
                     /\ garmoth_cache'[okey[c]].data.orders = oret'[c].val.orders
                     /\ garmoth_cache'[okey[c]].data.info = oret'[c].val.info]_vars

C19_Witness ==
    \E c, d \in Handlers :
        /\ c # d /\ okey[c] = okey[d]
        /\ opc[d] = "done" /\ onet[d] = 1 /\ oresp[d].kind = "dict"
        /\ opc[c] = "done" /\ onet[c] = 0
        /\ onow[c] > onow[d] /\ onow[c] - onow[d] < 10
        /\ oret[c].val.fetch_time = 0
        /\ oret[c].val.orders # <<>>
        /\ oret[c].val.orders = oret[d].val.orders

====
